---- MODULE Spec2Model ----
(***************************************************************************)
(* A model of ArduinoApp (src/arduino/arduino.ts): the upload and verify   *)
(* pipelines with their three strategies, the serial-port reset and        *)
(* rediscovery handshake, and the board-package / library installer.       *)
(*                                                                         *)
(* One invocation of a public operation runs at a time.  pc is the await   *)
(* point the invocation is suspended at; every action is the code that     *)
(* runs between two await points.  The external collaborators (process     *)
(* spawn, device enumeration, serial monitor, serial port handle) answer   *)
(* with values drawn from small sets.                                      *)
(***************************************************************************)
EXTENDS Integers, Sequences, FiniteSets, TLC

(***************************************************************************)
(* Bounds of the model.                                                    *)
(***************************************************************************)
NumPorts == 2        \* serial device identifiers the host can enumerate
MaxExitCode == 2     \* subprocess exit codes range over 0..MaxExitCode

(***************************************************************************)
(* Constants of the program.                                               *)
(***************************************************************************)
TouchBaudRate == 1200        \* new SerialPortCtrl(dc.port, 1200, ...)
PollInterval == 250          \* util.delay(250) in both polling loops
UploadPortTimeout == 10000   \* while (elapsed < 10000)
FallbackAfter == 5000        \* elapsed >= 5000
PortWaitTimeout == 2000      \* while (elapsed < 2000)

Null == "null"               \* the JavaScript value null
Undefined == "undefined"     \* the JavaScript value undefined

PortNames == <<"COM3", "/dev/ttyACM0", "/dev/ttyACM1", "COM4">>
Ports == {PortNames[i] : i \in 1..NumPorts}
ExitCodes == 0..MaxExitCode

\* What SerialPortCtrl.list() can answer: the enumerated identifiers in OS
\* order, each device once.
Enumerations ==
    {s \in UNION {[1..n -> Ports] : n \in 0..NumPorts} :
        \A i, j \in DOMAIN s : i # j => s[i] # s[j]}

\* Array.prototype.some over the comName of the listed devices.
some(list, comName) == \E i \in DOMAIN list : list[i] = comName

\* A message on a sink.  code is the exit code an error message carries,
\* NoCode on the other messages and where the code printed is undefined.
NoCode == 0 - 1
Msg(kind, text, arg) == [kind |-> kind, text |-> text, arg |-> arg, code |-> NoCode]
ExitMsg(code) == [kind |-> "error", text |-> "Exit with code=", arg |-> "", code |-> code]

VARIABLES
    pc,               \* await point of the running invocation; "idle" when there
                      \* is none, "done" when it has just ended
    op,               \* the public operation last invoked
    outcome,          \* "running", "returned" or "threw"
    result,           \* value the invocation returned (verify: "true" / "false")
    currentBoard,     \* boardManager.currentBoard: a board id or Null
    dcPort,           \* dc.port ("" when not configured)
    dcOutput,         \* dc.output ("" when not configured)
    builder,          \* VscodeSettings.builder
    logLevel,         \* VscodeSettings.logLevel
    uploadProperties, \* the merged Properties of the pattern-driven upload
    listening,        \* UsbDetector is listening for hotplug events
    pauseCalls,       \* pauseListening() calls of this invocation
    resumeCalls,      \* resumeListening() calls of this invocation
    monitorOpen,      \* the serial monitor is open
    needRestore,      \* what closeSerialMonitor(dc.port) returned
    touchHandle,      \* the SerialPortCtrl of the 1200bps touch
    touchCtrl,        \* the port and the baud rate that handle was made for
    stopCalls,        \* p.stop() calls of this invocation
    snapshot,         \* prepareUploadPort's `before`
    before,           \* waitForUploadPort's `before`
    elapsed,          \* `elapsed` of the polling loop in progress
    steady,           \* every poll of waitForUploadPort so far listed `snapshot`
    found,            \* how waitForUploadPort returned
    actualUploadPort, \* prepareUploadPort's actualUploadPort
    listCalls,        \* SerialPortCtrl.list() calls of this invocation
    listCallsAtSpawn, \* listCalls when the subprocess was spawned
    spawnCalls,       \* util.spawn() calls of this invocation
    spawnArgs,        \* the arguments of the last util.spawn() call
    force,            \* initialize / initializeLibrary: the force argument
    exitCode,         \* exit code of the last subprocess that ended, else NoCode
    packageSpec,      \* the install call in progress: [fn, name, arch, version]
    resolution,       \* resolvePackagePath(): what the file system answered, and
                      \* packageDir, the path it returned
    layers,           \* the three property sources uploadByPattern() merged
    channel,          \* arduinoChannel: what this invocation wrote
    notifications     \* vscode.window / Logger messages of this invocation

invocationVars == <<op, outcome, result, force, exitCode>>
configVars == <<currentBoard, dcPort, dcOutput, builder, logLevel, uploadProperties>>
listenerVars == <<listening, pauseCalls, resumeCalls>>
monitorVars == <<monitorOpen, needRestore>>
touchVars == <<touchHandle, touchCtrl, stopCalls>>
pollVars == <<snapshot, before, elapsed, steady, found, actualUploadPort>>
countVars == <<listCalls, listCallsAtSpawn, spawnCalls, spawnArgs>>
sinkVars == <<channel, notifications>>
patternVars == <<resolution, layers>>

vars == <<pc, invocationVars, configVars, listenerVars, monitorVars, touchVars,
          pollVars, countVars, packageSpec, patternVars, sinkVars>>

\* The keys uploadByPattern() and prepareUploadPort() read or set, for the
\* upload tool "avrdude".  A Properties object is a function on these keys; a
\* key it does not hold maps to Undefined, which is what get() answers for it.
ComputedKeys == {"build.path", "build.project_name", "upload.verbose",
                 "serial.port", "serial.port.file"}
PropKeys == {"upload.use_1200bps_touch", "upload.wait_for_upload_port",
             "upload.tool", "tools.avrdude.upload.params.verbose",
             "tools.avrdude.upload.params.quiet", "tools.avrdude.upload.pattern"}
            \cup ComputedKeys
NoProperties == [k \in PropKeys |-> Undefined]

\* The null that resolvePackagePath() returns, among paths (sequences of path
\* segments).
NotFound == <<>>

\* No resolvePackagePath() call has been made; no property source was loaded.
NoResolution == [builtIn |-> "unprobed", listable |-> FALSE, files |-> <<>>, listed |-> FALSE, packageDir |-> NotFound]
NoLayers == [loaded |-> FALSE, platform |-> NoProperties, boards |-> <<>>, tools |-> NoProperties]
NoCtrl == [port |-> "", baudRate |-> 0]
NoPackage == [fn |-> "none", name |-> "", arch |-> "", version |-> ""]

\* The state a fresh invocation starts from: everything an invocation keeps
\* for itself, as opposed to the collaborators' state (listening, monitorOpen).
FreshPoll ==
    /\ snapshot' = <<>>
    /\ before' = <<>>
    /\ elapsed' = 0
    /\ steady' = TRUE
    /\ found' = "none"
    /\ actualUploadPort' = Null
    /\ exitCode' = NoCode
    /\ resolution' = NoResolution
    /\ layers' = NoLayers
Init ==
    /\ pc = "idle"
    /\ op = "none"
    /\ outcome = "returned"
    /\ result = Undefined
    /\ currentBoard = Null
    /\ dcPort = ""
    /\ dcOutput = ""
    /\ builder = "arduino"
    /\ logLevel = "info"
    /\ uploadProperties = NoProperties
    /\ listening = TRUE
    /\ pauseCalls = 0
    /\ resumeCalls = 0
    /\ monitorOpen \in BOOLEAN
    /\ needRestore = FALSE
    /\ touchHandle = "none"
    /\ touchCtrl = NoCtrl
    /\ stopCalls = 0
    /\ snapshot = <<>>
    /\ before = <<>>
    /\ elapsed = 0
    /\ steady = TRUE
    /\ found = "none"
    /\ actualUploadPort = Null
    /\ listCalls = 0
    /\ listCallsAtSpawn = 0
    /\ spawnCalls = 0
    /\ spawnArgs = <<>>
    /\ force = FALSE
    /\ exitCode = NoCode
    /\ packageSpec = NoPackage
    /\ resolution = NoResolution
    /\ layers = NoLayers
    /\ channel = <<>>
    /\ notifications = <<>>


(***************************************************************************)
(* upload() and verify(): the checks made before a strategy is chosen.     *)
(***************************************************************************)

\* preflight without the serial port check of lines 110-113.
preflightWithoutPortCheck(board, rootPath, sketchOnDisk, discovered, port, needPort) ==
    IF board = Null
    THEN [verdict |-> "returned", note |-> Msg("error", "NO_BOARD_SELECTED", "")]
    ELSE IF ~rootPath
    THEN [verdict |-> "returned",
          note |-> Msg("warning", "Cannot find the sketch file.", "")]
    ELSE IF ~sketchOnDisk /\ ~discovered
    THEN [verdict |-> "threw", note |-> Msg("error", "No sketch file was found.", "")]
    ELSE [verdict |-> "proceed", note |-> Msg("none", "", "")]

\* Lines 97-113 of upload() and 128-140 of verify(), which differ only by the
\* serial port check.  sketchOnDisk: dc.sketch names an existing file;
\* discovered: dc.sketch is set once resolveMainSketch() has run.
preflight(board, rootPath, sketchOnDisk, discovered, port, needPort) ==
    IF board = Null
    THEN [verdict |-> "returned", note |-> Msg("error", "NO_BOARD_SELECTED", "")]
    ELSE IF ~rootPath
    THEN [verdict |-> "returned",
          note |-> Msg("warning", "Cannot find the sketch file.", "")]
    ELSE IF ~sketchOnDisk /\ ~discovered
    THEN [verdict |-> "threw", note |-> Msg("error", "No sketch file was found.", "")]
    ELSE IF needPort /\ port = ""
    THEN [verdict |-> "returned",
          note |-> Msg("error", "Please specify the upload serial port.", "")]
    ELSE [verdict |-> "proceed", note |-> Msg("none", "", "")]

\* strategyOf without the direct-command strategy.
strategyOfWithoutCommand(b) ==
    IF b = "arduino-builder" THEN "pattern"
    ELSE "ide"

\* The strategy a builder setting selects (lines 116-122 and 144-150).
strategyOf(b) ==
    IF b = "command" THEN "command"
    ELSE IF b = "arduino-builder" THEN "pattern"
    ELSE "ide"

Builders == {"command", "arduino-builder", "arduino", ""}
Boards == {Null, "uno"}

\* upload pausing the hotplug listener before its checks instead of after
\* them.
uploadPausingFirst(board, rootPath, sketchOnDisk, discovered, port, b) ==
    LET pre == preflight(board, rootPath, sketchOnDisk, discovered, port, TRUE) IN
    /\ pc = "idle"
    /\ op' = "upload"
    /\ result' = Undefined
    /\ force' = FALSE
    /\ spawnArgs' = <<>>
    /\ currentBoard' = board
    /\ dcPort' = port
    /\ builder' = b
    /\ FreshPoll
    /\ needRestore' = FALSE
    /\ touchHandle' = "none"
    /\ touchCtrl' = NoCtrl
    /\ uploadProperties' = NoProperties
    /\ dcOutput' = ""
    /\ logLevel' = "info"
    /\ packageSpec' = NoPackage
    /\ listCalls' = 0
    /\ listCallsAtSpawn' = 0
    /\ spawnCalls' = 0
    /\ resumeCalls' = 0
    /\ stopCalls' = 0
    /\ channel' = <<>>
    /\ UNCHANGED monitorOpen
    /\ listening' = FALSE
    /\ pauseCalls' = 1
    /\ IF pre.verdict = "proceed"
       THEN /\ notifications' = <<>>
            /\ outcome' = "running"
            /\ pc' = strategyOf(b)
       ELSE /\ notifications' = <<pre.note>>
            /\ outcome' = pre.verdict
            /\ pc' = "done"

\* upload(), lines 95-122, up to the await of the selected strategy.
upload(board, rootPath, sketchOnDisk, discovered, port, b) ==
    LET pre == preflight(board, rootPath, sketchOnDisk, discovered, port, TRUE) IN
    /\ pc = "idle"
    /\ op' = "upload"
    /\ result' = Undefined
    /\ force' = FALSE
    /\ spawnArgs' = <<>>
    /\ currentBoard' = board
    /\ dcPort' = port
    /\ builder' = b
    /\ FreshPoll
    /\ needRestore' = FALSE
    /\ touchHandle' = "none"
    /\ touchCtrl' = NoCtrl
    /\ uploadProperties' = NoProperties
    /\ dcOutput' = ""
    /\ logLevel' = "info"
    /\ packageSpec' = NoPackage
    /\ listCalls' = 0
    /\ listCallsAtSpawn' = 0
    /\ spawnCalls' = 0
    /\ resumeCalls' = 0
    /\ stopCalls' = 0
    /\ channel' = <<>>
    /\ UNCHANGED monitorOpen
    /\ IF pre.verdict = "proceed"
       THEN /\ listening' = FALSE              \* pauseListening()
            /\ pauseCalls' = 1
            /\ notifications' = <<>>
            /\ outcome' = "running"
            /\ pc' = strategyOf(b)
       ELSE /\ UNCHANGED listening
            /\ pauseCalls' = 0
            /\ notifications' = <<pre.note>>
            /\ outcome' = pre.verdict
            /\ pc' = "done"

\* upload(), line 123: the strategy's promise resolved.
uploadResume ==
    /\ pc = "resume"
    /\ listening' = TRUE                       \* resumeListening()
    /\ resumeCalls' = resumeCalls + 1
    /\ outcome' = "returned"
    /\ pc' = "done"
    /\ UNCHANGED <<op, result, force, exitCode, configVars, pauseCalls, monitorVars, touchVars,
                   pollVars, countVars, packageSpec, patternVars, sinkVars>>

\* An exception leaves the strategy: the promise awaited at lines 117-121
\* rejects and upload() rejects with it.
Throw ==
    /\ outcome' = "threw"
    /\ pc' = "done"

(***************************************************************************)
(* The direct-command and the full-IDE upload.                             *)
(***************************************************************************)

\* uploadByCommand(), lines 547-557, up to the await of util.spawn.
uploadByCommand(closeFails, tokenizeFails) ==
    /\ pc = "command"
    /\ op = "upload"
    /\ channel' = <<Msg("start", "Upload sketch - ", "sketch")>>
    /\ IF closeFails
       THEN /\ Throw
            /\ UNCHANGED <<monitorVars, countVars>>
       ELSE /\ needRestore' = monitorOpen      \* closeSerialMonitor(dc.port)
            /\ monitorOpen' = FALSE
            /\ IF tokenizeFails                \* util.splitArgs(uploadCommand)
               THEN /\ Throw
                    /\ UNCHANGED countVars
               ELSE /\ spawnCalls' = spawnCalls + 1
                    /\ spawnArgs' = <<"uploadCommand">>
                    /\ listCallsAtSpawn' = listCalls
                    /\ pc' = "spawned"
                    /\ UNCHANGED <<outcome, listCalls>>
    /\ UNCHANGED <<op, result, force, exitCode, configVars, listenerVars, touchVars, pollVars,
                   packageSpec, patternVars, notifications>>

\* The arguments of uploadByArduinoIde(), lines 630-633.  dc.output is not
\* read.
ideUploadArgs(board, port, level) ==
    <<"--upload", "--board", board, "--port", port, "appPath">>
    \o (IF level = "verbose" THEN <<"--verbose">> ELSE <<>>)

\* uploadByArduinoIde(), lines 620-634, up to the await of util.spawn.  output
\* is the dc.output the device context holds.
uploadByArduinoIde(closeFails, level, output) ==
    /\ pc = "ide"
    /\ op = "upload"
    /\ channel' = <<Msg("start", "Upload sketch - ", "sketch")>>
    /\ logLevel' = level
    /\ dcOutput' = output
    /\ IF closeFails
       THEN /\ Throw
            /\ UNCHANGED <<monitorVars, countVars>>
       ELSE /\ needRestore' = monitorOpen      \* closeSerialMonitor(dc.port)
            /\ monitorOpen' = FALSE
            /\ spawnCalls' = spawnCalls + 1
            /\ spawnArgs' = ideUploadArgs(currentBoard, dcPort, level)
            /\ listCallsAtSpawn' = listCalls
            /\ pc' = "spawned"
            /\ UNCHANGED <<outcome, listCalls>>
    /\ UNCHANGED <<op, result, force, exitCode, currentBoard, dcPort, builder,
                   uploadProperties, listenerVars, touchVars, pollVars,
                   packageSpec, patternVars, notifications>>


(***************************************************************************)
(* The pattern-driven upload.                                              *)
(***************************************************************************)

\* path.join(...) as the sequence of the joined segments.
builtInPath == <<"defaultPackagePath", "packager", "arch">>
externalPath == <<"packagePath", "packages", "packager", "hardware", "arch">>

\* resolvePackagePath looking at the user-installed platforms first.
resolvePackagePathUserFirst(builtIn, listable, files) ==
    IF listable /\ Len(files) > 0
    THEN [packageDir |-> externalPath \o <<files[1]>>, listed |-> TRUE]
    ELSE [packageDir |-> IF builtIn # "missing" THEN builtInPath ELSE NotFound,
          listed |-> TRUE]

\* resolvePackagePath taking the last listed version instead of the first.
resolvePackagePathLastListed(builtIn, listable, files) ==
    IF builtIn # "missing"
    THEN [packageDir |-> builtInPath, listed |-> FALSE]
    ELSE [packageDir |-> IF listable /\ Len(files) > 0
                         THEN externalPath \o <<files[Len(files)]>>
                         ELSE NotFound,
          listed |-> TRUE]

\* resolvePackagePath(), lines 518-545.  builtIn is what fs.lstatSync finds at
\* builtInPath ("missing" when it throws, else "file" or "dir"); listable is
\* FALSE when fs.readdirSync(externalPath) throws, and files is what it lists
\* otherwise.  stat.isDirectory is read, not called: the function object is
\* truthy for every stat.  packageDir is the path returned, listed tells
\* whether fs.readdirSync(externalPath) was called.
resolvePackagePath(builtIn, listable, files) ==
    IF builtIn # "missing"
    THEN [packageDir |-> builtInPath, listed |-> FALSE]
    ELSE [packageDir |-> IF listable /\ Len(files) > 0
                         THEN externalPath \o <<files[1]>>
                         ELSE NotFound,
          listed |-> TRUE]

BuiltIns == {"missing", "file", "dir"}
Listings == {<<>>, <<"1.8.3">>, <<"1.8.3", "1.6.0">>, <<"1.6.0", "1.8.3">>}

\* isNull never holding: the platform path is used whatever was resolved.
isNullNever(packageDir) == FALSE

\* Line 569: packageDir === null.
isNull(packageDir) == packageDir = NotFound

\* Properties.get(key) and Properties.set(key, value) as lines 587-607 call
\* them: get answers undefined for a key the object does not hold.
get(properties, key) == IF key \in DOMAIN properties THEN properties[key] ELSE Undefined
set(properties, key, value) == [properties EXCEPT ![key] = value]

\* Properties.merge(other): the keys of other are written over the receiver's.
merge(receiver, other) ==
    [k \in PropKeys |-> IF other[k] # Undefined THEN other[k] ELSE receiver[k]]

\* Properties.extractWithPrefix(prefix): the entries "<prefix>.<rest>" under
\* the key <rest>, the others dropped.  boardPref is boards.txt as a function
\* from the prefix (a board id) to the entries under it.
extractWithPrefix(boardPref, prefix) ==
    IF prefix \in DOMAIN boardPref THEN boardPref[prefix] ELSE NoProperties

\* mergedProperties with the user's tool properties merged before the board's.
mergedPropertiesBoardLast(platformTxt, boardPref, toolProperties, board) ==
    merge(merge(platformTxt, toolProperties), extractWithPrefix(boardPref, board))

\* Lines 574-579: platform.txt, then the entries of boards.txt under the
\* current board, then settings.toolProperties.
mergedProperties(platformTxt, boardPref, toolProperties, board) ==
    merge(merge(platformTxt, extractWithPrefix(boardPref, board)), toolProperties)

\* "tools." + tool + rest: a key of PropKeys for the tool "avrdude", and a
\* key no property source holds for every other tool.
toolKey(tool, rest) ==
    IF tool # "avrdude" THEN "tools.<other>"
    ELSE CASE rest = ".upload.params.verbose" -> "tools.avrdude.upload.params.verbose"
           [] rest = ".upload.params.quiet" -> "tools.avrdude.upload.params.quiet"
           [] OTHER -> "tools.avrdude.upload.pattern"

\* path.join(vscode.workspace.rootPath, dc.output) and path.basename(dc.sketch).
outputPath(output) == IF output = "build" THEN "rootPath/build" ELSE "rootPath"
projectName == "sketch.ino"

\* Lines 586-595: the keys uploadByPattern() sets once the merges are done.
withBuildKeys(properties, output, level) ==
    LET tool == get(properties, "upload.tool")
        param == IF level = "verbose" THEN ".upload.params.verbose"
                 ELSE ".upload.params.quiet"
        built == set(set(properties, "build.path", outputPath(output)),
                     "build.project_name", projectName)
    IN set(built, "upload.verbose", get(built, toolKey(tool, param)))

\* The property sources an upload can find.  platform.txt holds the avrdude
\* entries and, in its second form, the two upload.* switches and the build
\* keys as well; boards.txt holds entries of two boards; the user's tool
\* properties are empty or hold the switches and every computed key.
Switches == {"upload.use_1200bps_touch", "upload.wait_for_upload_port"}
BoardIds == {"uno", "mega"}
Avrdude ==
    [k \in PropKeys |->
        CASE k = "tools.avrdude.upload.params.verbose" -> "-v"
          [] k = "tools.avrdude.upload.params.quiet" -> "-q -q"
          [] k = "tools.avrdude.upload.pattern" -> "upload.pattern"
          [] OTHER -> Undefined]
PlatformTxts ==
    {[k \in PropKeys |->
        IF Avrdude[k] # Undefined THEN Avrdude[k]
        ELSE IF ~full \/ k \in {"upload.tool", "serial.port", "serial.port.file"}
        THEN Undefined
        ELSE IF k \in Switches THEN "false"
        ELSE "platform.txt"] : full \in BOOLEAN}
BoardPrefs ==
    {[b \in BoardIds |->
        [k \in PropKeys |->
            CASE k = "upload.tool" -> IF b = "uno" THEN "avrdude" ELSE "bossac"
              [] k = "upload.use_1200bps_touch" -> IF b = "uno" THEN sw[1] ELSE "true"
              [] k = "upload.wait_for_upload_port" -> IF b = "uno" THEN sw[2] ELSE "true"
              [] k = "serial.port" -> IF b = "uno" THEN Undefined ELSE "boards.txt"
              [] OTHER -> Undefined]] :
     sw \in {Undefined, "true"} \X {Undefined, "true"}}
ToolProperties ==
    {[k \in PropKeys |->
        IF ~overriding THEN Undefined
        ELSE IF k \in Switches THEN "false"
        ELSE IF k \in ComputedKeys THEN "toolProperties"
        ELSE Undefined] : overriding \in BOOLEAN}

\* uploadByPattern testing dc.output after it has closed the serial monitor.
uploadByPatternCheckingOutputLate(builtIn, listable, files, platformTxt, boardPref, toolProperties, output, level, closeFails) ==
    LET resolved == resolvePackagePath(builtIn, listable, files)
        packageDir == resolved.packageDir
        merged == mergedProperties(platformTxt, boardPref, toolProperties, currentBoard)
    IN
    /\ pc = "pattern"
    /\ op = "upload"
    /\ resolution' = [builtIn |-> builtIn, listable |-> listable, files |-> files,
                      listed |-> resolved.listed, packageDir |-> packageDir]
    /\ IF isNull(packageDir)
       THEN /\ notifications' =
                   <<Msg("error", "Cannot found properties for upload.", "")>>
            /\ pc' = "resume"
            /\ UNCHANGED <<outcome, uploadProperties, dcOutput, logLevel, monitorVars,
                           layers>>
       ELSE /\ layers' = [loaded |-> TRUE, platform |-> platformTxt,
                          boards |-> boardPref, tools |-> toolProperties]
            /\ dcOutput' = output
            /\ IF closeFails
               THEN /\ Throw
                    /\ uploadProperties' = merged
                    /\ UNCHANGED <<logLevel, notifications, monitorVars>>
               ELSE /\ needRestore' = monitorOpen
                    /\ monitorOpen' = FALSE
                    /\ UNCHANGED outcome
                    /\ IF output = ""
                       THEN /\ uploadProperties' = merged
                            /\ notifications' =
                                  <<Msg("error", "No output folder specified. Cannot find binary.", "")>>
                            /\ pc' = "resume"
                            /\ UNCHANGED logLevel
                       ELSE /\ uploadProperties' = withBuildKeys(merged, output, level)
                            /\ logLevel' = level
                            /\ pc' = "prepare"
                            /\ UNCHANGED notifications
    /\ UNCHANGED <<op, result, force, exitCode, currentBoard, dcPort, builder, listenerVars,
                   touchVars, pollVars, countVars, packageSpec, channel>>

\* uploadByPattern(), lines 567-598, up to the await of prepareUploadPort.
uploadByPattern(builtIn, listable, files, platformTxt, boardPref, toolProperties, output, level, closeFails) ==
    LET resolved == resolvePackagePath(builtIn, listable, files)
        packageDir == resolved.packageDir
        merged == mergedProperties(platformTxt, boardPref, toolProperties, currentBoard)
    IN
    /\ pc = "pattern"
    /\ op = "upload"
    /\ resolution' = [builtIn |-> builtIn, listable |-> listable, files |-> files,
                      listed |-> resolved.listed, packageDir |-> packageDir]
    /\ IF isNull(packageDir)
       THEN /\ notifications' =
                   <<Msg("error", "Cannot found properties for upload.", "")>>
            /\ pc' = "resume"
            /\ UNCHANGED <<outcome, uploadProperties, dcOutput, logLevel, monitorVars,
                           layers>>
       ELSE /\ layers' = [loaded |-> TRUE, platform |-> platformTxt,
                          boards |-> boardPref, tools |-> toolProperties]
            /\ dcOutput' = output
            /\ IF output = ""
               THEN /\ uploadProperties' = merged
                    /\ notifications' =
                          <<Msg("error", "No output folder specified. Cannot find binary.", "")>>
                    /\ pc' = "resume"
                    /\ UNCHANGED <<outcome, logLevel, monitorVars>>
               ELSE /\ uploadProperties' = withBuildKeys(merged, output, level)
                    /\ logLevel' = level
                    /\ UNCHANGED notifications
                    /\ IF closeFails
                       THEN /\ Throw
                            /\ UNCHANGED monitorVars
                       ELSE /\ needRestore' = monitorOpen   \* closeSerialMonitor
                            /\ monitorOpen' = FALSE
                            /\ pc' = "prepare"
                            /\ UNCHANGED outcome
    /\ UNCHANGED <<op, result, force, exitCode, currentBoard, dcPort, builder, listenerVars,
                   touchVars, pollVars, countVars, packageSpec, channel>>

\* doTouch as a test of truthiness: the string "false" is truthy.
doTouchTruthy == uploadProperties["upload.use_1200bps_touch"] # Undefined

\* Lines 486-487.
doTouch == uploadProperties["upload.use_1200bps_touch"] = "true"
doWait == uploadProperties["upload.wait_for_upload_port"] = "true"

\* Where prepareUploadPort() goes after the settle delay of line 503.
afterSettle == IF doWait THEN "waitForUploadPort" ELSE "prepared"

\* prepareUploadPort opening the touch handle without looking for dc.port in
\* the snapshot.
prepareUploadPortTouchingAlways(now) ==
    /\ pc = "prepare"
    /\ IF doTouch
       THEN /\ snapshot' = now
            /\ before' = now
            /\ listCalls' = listCalls + 1
            /\ channel' = IF logLevel = "verbose"
                          THEN Append(channel,
                                 Msg("info", "Forcing reset using 1200bps open/close on port ", dcPort))
                          ELSE channel
            /\ touchHandle' = "created"
            /\ touchCtrl' = [port |-> dcPort, baudRate |-> TouchBaudRate]
            /\ pc' = "touchOpen"
       ELSE /\ pc' = "prepared"
            /\ UNCHANGED <<snapshot, before, listCalls, channel, touchHandle, touchCtrl>>
    /\ resolution' = NoResolution
    /\ layers' = NoLayers
    /\ UNCHANGED <<invocationVars, configVars, listenerVars, monitorVars, stopCalls,
                   elapsed, steady, found, actualUploadPort, listCallsAtSpawn,
                   spawnCalls, spawnArgs, packageSpec, notifications>>

\* prepareUploadPort reading upload.wait_for_upload_port outside the test of
\* doTouch: with touch disabled it still waits for the upload port.
prepareUploadPortWaitingAnyway(now) ==
    /\ pc = "prepare"
    /\ IF doTouch
       THEN /\ snapshot' = now
            /\ before' = now
            /\ listCalls' = listCalls + 1
            /\ IF some(now, dcPort)
               THEN /\ channel' = IF logLevel = "verbose"
                                  THEN Append(channel,
                                         Msg("info", "Forcing reset using 1200bps open/close on port ", dcPort))
                                  ELSE channel
                    /\ touchHandle' = "created"
                    /\ touchCtrl' = [port |-> dcPort, baudRate |-> TouchBaudRate]
                    /\ pc' = "touchOpen"
               ELSE /\ pc' = afterSettle
                    /\ UNCHANGED <<channel, touchHandle, touchCtrl>>
       ELSE /\ pc' = afterSettle
            /\ UNCHANGED <<snapshot, before, listCalls, channel, touchHandle, touchCtrl>>
    /\ resolution' = NoResolution
    /\ layers' = NoLayers
    /\ UNCHANGED <<invocationVars, configVars, listenerVars, monitorVars, stopCalls,
                   elapsed, steady, found, actualUploadPort, listCallsAtSpawn,
                   spawnCalls, spawnArgs, packageSpec, notifications>>

\* prepareUploadPort(), lines 485-496: the snapshot and the decision to touch.
prepareUploadPort(now) ==
    /\ pc = "prepare"
    /\ IF doTouch
       THEN /\ snapshot' = now
            /\ before' = now
            /\ listCalls' = listCalls + 1
            /\ IF some(now, dcPort)
               THEN /\ channel' = IF logLevel = "verbose"
                                  THEN Append(channel,
                                         Msg("info", "Forcing reset using 1200bps open/close on port ", dcPort))
                                  ELSE channel
                    /\ touchHandle' = "created"
                    /\ touchCtrl' = [port |-> dcPort, baudRate |-> TouchBaudRate]
                    /\ pc' = "touchOpen"
               ELSE /\ pc' = afterSettle
                    /\ UNCHANGED <<channel, touchHandle, touchCtrl>>
       ELSE /\ pc' = "prepared"
            /\ UNCHANGED <<snapshot, before, listCalls, channel, touchHandle, touchCtrl>>
    \* packageDir and the property sources are not read again
    /\ resolution' = NoResolution
    /\ layers' = NoLayers
    /\ UNCHANGED <<invocationVars, configVars, listenerVars, monitorVars, stopCalls,
                   elapsed, steady, found, actualUploadPort, listCallsAtSpawn,
                   spawnCalls, spawnArgs, packageSpec, notifications>>

\* Line 498: p.open() resolves (the handle is open) or rejects.
touchOpen(opens) ==
    /\ pc = "touchOpen"
    /\ touchHandle' = IF opens THEN "open" ELSE "failed"
    /\ pc' = "touchStop"
    /\ UNCHANGED <<invocationVars, configVars, listenerVars, monitorVars, touchCtrl, stopCalls,
                   pollVars, countVars, packageSpec, patternVars, sinkVars>>

\* touchStop without the finally: stop() is skipped when open() rejects.
touchStopAfterOpenOnly ==
    /\ pc = "touchStop"
    /\ IF touchHandle = "failed"
       THEN /\ Throw
            /\ UNCHANGED touchVars
       ELSE /\ stopCalls' = stopCalls + 1
            /\ touchHandle' = "closed"
            /\ UNCHANGED touchCtrl
            /\ pc' = afterSettle
            /\ UNCHANGED outcome
    /\ UNCHANGED <<op, result, force, exitCode, configVars, listenerVars, monitorVars,
                   pollVars, countVars, packageSpec, patternVars, sinkVars>>

\* Lines 499-501: the finally block; a rejected open() is rethrown after it.
touchStop ==
    /\ pc = "touchStop"
    /\ stopCalls' = stopCalls + 1
    /\ touchHandle' = "closed"
    /\ UNCHANGED touchCtrl
    /\ IF touchHandle = "failed"
       THEN Throw
       ELSE /\ pc' = afterSettle
            /\ UNCHANGED outcome
    /\ UNCHANGED <<op, result, force, exitCode, configVars, listenerVars, monitorVars,
                   pollVars, countVars, packageSpec, patternVars, sinkVars>>


\* firstNew without the comparison with the previous enumeration.
firstListed(now, previous) == IF Len(now) > 0 THEN now[1] ELSE Null

\* firstNew taking the last new device instead of the first.
lastNew(now, previous) ==
    LET fresh == {i \in DOMAIN now : ~some(previous, now[i])} IN
    IF fresh = {} THEN Null
    ELSE now[CHOOSE i \in fresh : \A j \in fresh : i >= j]

\* The first device of `now` that `before` does not hold (lines 457-461), Null
\* when there is none.
firstNew(now, previous) ==
    LET fresh == {i \in DOMAIN now : ~some(previous, now[i])} IN
    IF fresh = {} THEN Null
    ELSE now[CHOOSE i \in fresh : \A j \in fresh : i <= j]

\* fallback without the condition on the elapsed time.
fallbackAtOnce(e, now, uploadPort) == some(now, uploadPort)

\* Line 466: the original port is accepted once 5 s have elapsed.
fallback(e, now, uploadPort) == e >= FallbackAfter /\ some(now, uploadPort)

\* One iteration of the loop of waitForUploadPort(), lines 455-469, entered
\* with elapsed = e and before = previous, when list() answers `now`.
waitForUploadPortStep(e, previous, now, uploadPort) ==
    LET fresh == firstNew(now, previous)
        e2 == e + PollInterval
    IN
    IF fresh # Null
    THEN [returns |-> TRUE, value |-> fresh, how |-> "new", elapsed |-> e]
    ELSE IF fallback(e2, now, uploadPort)
    THEN [returns |-> TRUE, value |-> uploadPort, how |-> "fallback", elapsed |-> e2]
    ELSE IF e2 < UploadPortTimeout
    THEN [returns |-> FALSE, value |-> Null, how |-> "none", elapsed |-> e2]
    ELSE [returns |-> TRUE, value |-> Undefined, how |-> "timeout", elapsed |-> e2]

\* waitForUploadPort(): one poll, and line 505 when the loop is left.
waitForUploadPort(now) ==
    LET step == waitForUploadPortStep(elapsed, before, now, dcPort) IN
    /\ pc = "waitForUploadPort"
    /\ listCalls' = listCalls + 1
    /\ before' = IF step.how = "new" THEN before ELSE now
    /\ elapsed' = step.elapsed
    /\ steady' = (steady /\ now = snapshot)
    /\ found' = step.how
    /\ IF step.returns
       THEN /\ actualUploadPort' = step.value
            /\ pc' = "prepared"
       ELSE /\ pc' = "waitForUploadPort"
            /\ UNCHANGED actualUploadPort
    /\ UNCHANGED <<invocationVars, configVars, listenerVars, monitorVars, touchVars,
                   snapshot, listCallsAtSpawn, spawnCalls, spawnArgs, packageSpec, patternVars, sinkVars>>

\* serial.port.file of line 602-606: the identifier without a leading "/dev/".
portFile(port) ==
    CASE port = "/dev/ttyACM0" -> "ttyACM0"
      [] port = "/dev/ttyACM1" -> "ttyACM1"
      [] OTHER -> port

\* Line 511: only null, not undefined, is replaced by the configured port.
orConfigured(port, configured) == IF port = Null THEN configured ELSE port

\* prepareUploadPort() lines 509-515 and uploadByPattern() lines 601-609, up
\* to the await of util.spawn.  undefined.startsWith throws a TypeError.
composeUpload(tokenizeFails) ==
    LET port == orConfigured(actualUploadPort, dcPort)
        tool == get(uploadProperties, "upload.tool")
        cmd == get(uploadProperties, toolKey(tool, ".upload.pattern"))
    IN
    /\ pc = "prepared"
    /\ actualUploadPort' = port
    /\ IF port = Undefined
       THEN /\ uploadProperties' = [uploadProperties EXCEPT !["serial.port"] = port]
            /\ Throw
            /\ UNCHANGED countVars
       ELSE /\ uploadProperties' = [uploadProperties EXCEPT
                                       !["serial.port"] = port,
                                       !["serial.port.file"] = portFile(port)]
            /\ IF tokenizeFails                \* util.splitArgs(cmd)
               THEN /\ Throw
                    /\ UNCHANGED countVars
               ELSE /\ spawnCalls' = spawnCalls + 1
                    /\ spawnArgs' = <<cmd>>
                    /\ listCallsAtSpawn' = listCalls
                    /\ pc' = "spawned"
                    /\ UNCHANGED <<outcome, listCalls>>
    \* the locals of prepareUploadPort() and waitForUploadPort() are gone
    /\ snapshot' = <<>>
    /\ before' = <<>>
    /\ elapsed' = 0
    /\ steady' = TRUE
    /\ UNCHANGED <<op, result, force, exitCode, currentBoard, dcPort, dcOutput, builder, logLevel,
                   listenerVars, monitorVars, touchVars, found, packageSpec, patternVars, sinkVars>>

(***************************************************************************)
(* The end of an upload, common to the three strategies.                   *)
(***************************************************************************)

\* uploadExit without the post-upload wait of the pattern-driven upload.
uploadExitSkippingWait(code) ==
    /\ pc = "spawned"
    /\ op = "upload"
    /\ IF code = 0
       THEN /\ pc' = "restore"
            /\ elapsed' = 0
            /\ UNCHANGED channel
       ELSE /\ channel' = Append(channel, ExitMsg(code))
            /\ pc' = "resume"
            /\ UNCHANGED elapsed
    /\ exitCode' = code
    /\ UNCHANGED <<op, outcome, result, force, configVars, listenerVars, monitorVars, touchVars,
                   snapshot, before, steady, found, actualUploadPort, countVars,
                   packageSpec, patternVars, notifications>>

\* uploadExit reopening the serial monitor in the failure callback too.
uploadExitRestoringOnFailure(code) ==
    /\ pc = "spawned"
    /\ op = "upload"
    /\ IF code = 0
       THEN /\ pc' = IF strategyOf(builder) = "pattern" THEN "waitForPort" ELSE "restore"
            /\ elapsed' = 0
            /\ UNCHANGED <<channel, monitorOpen>>
       ELSE /\ channel' = Append(channel, ExitMsg(code))
            /\ monitorOpen' = (monitorOpen \/ needRestore)
            /\ pc' = "resume"
            /\ UNCHANGED elapsed
    /\ exitCode' = code
    /\ UNCHANGED <<op, outcome, result, force, configVars, listenerVars, needRestore, touchVars,
                   snapshot, before, steady, found, actualUploadPort, countVars,
                   packageSpec, patternVars, notifications>>

\* The two callbacks of util.spawn(...).then(...): lines 557-564, 609-617 and
\* 634-641, up to their first await.
uploadExit(code) ==
    /\ pc = "spawned"
    /\ op = "upload"
    /\ IF code = 0
       THEN /\ pc' = IF strategyOf(builder) = "pattern" THEN "waitForPort" ELSE "restore"
            /\ elapsed' = 0
            /\ UNCHANGED channel
       ELSE /\ channel' = Append(channel, ExitMsg(code))
            /\ pc' = "resume"
            /\ UNCHANGED elapsed
    /\ exitCode' = code
    /\ UNCHANGED <<op, outcome, result, force, configVars, listenerVars, monitorVars, touchVars,
                   snapshot, before, steady, found, actualUploadPort, countVars,
                   packageSpec, patternVars, notifications>>

\* waitForPort without its timeout: it polls until the port is listed.
waitForPortUntilListed(ports) ==
    /\ pc = "waitForPort"
    /\ listCalls' = listCalls + 1
    /\ IF some(ports, dcPort)
       THEN /\ pc' = "restore"
            /\ UNCHANGED elapsed
       ELSE /\ elapsed' = elapsed + PollInterval
            /\ pc' = "waitForPort"
    /\ UNCHANGED <<invocationVars, configVars, listenerVars, monitorVars, touchVars,
                   snapshot, before, steady, found, actualUploadPort,
                   listCallsAtSpawn, spawnCalls, spawnArgs, packageSpec, patternVars, sinkVars>>

\* waitForPort(), lines 472-483: one poll after the initial delay.
waitForPort(ports) ==
    /\ pc = "waitForPort"
    /\ listCalls' = listCalls + 1
    /\ IF some(ports, dcPort)
       THEN /\ pc' = "restore"
            /\ UNCHANGED elapsed
       ELSE /\ elapsed' = elapsed + PollInterval
            /\ pc' = IF elapsed + PollInterval < PortWaitTimeout
                     THEN "waitForPort" ELSE "restore"
    /\ UNCHANGED <<invocationVars, configVars, listenerVars, monitorVars, touchVars,
                   snapshot, before, steady, found, actualUploadPort,
                   listCallsAtSpawn, spawnCalls, spawnArgs, packageSpec, patternVars, sinkVars>>

\* restoreMonitor opening the serial monitor whatever closeSerialMonitor()
\* had returned.
restoreMonitorAlways(openFails) ==
    /\ pc = "restore"
    /\ IF openFails
       THEN /\ Throw
            /\ UNCHANGED <<monitorOpen, channel>>
       ELSE /\ monitorOpen' = TRUE
            /\ channel' = Append(channel, Msg("end", "Uploaded the sketch: ", "sketch"))
            /\ pc' = "resume"
            /\ UNCHANGED outcome
    /\ UNCHANGED <<op, result, force, exitCode, configVars, listenerVars, needRestore, touchVars,
                   pollVars, countVars, packageSpec, patternVars, notifications>>

\* The rest of the success callback: lines 558-561, 611-614 and 635-638.
restoreMonitor(openFails) ==
    /\ pc = "restore"
    /\ IF needRestore /\ openFails             \* openSerialMonitor() rejects
       THEN /\ Throw
            /\ UNCHANGED <<monitorOpen, channel>>
       ELSE /\ monitorOpen' = (monitorOpen \/ needRestore)
            /\ channel' = Append(channel, Msg("end", "Uploaded the sketch: ", "sketch"))
            /\ pc' = "resume"
            /\ UNCHANGED outcome
    /\ UNCHANGED <<op, result, force, exitCode, configVars, listenerVars, needRestore, touchVars,
                   pollVars, countVars, packageSpec, patternVars, notifications>>


(***************************************************************************)
(* verify() and its three strategies.                                      *)
(***************************************************************************)

\* What a call that is not an upload resets.
FreshCall ==
    /\ FreshPoll
    /\ needRestore' = FALSE
    /\ touchHandle' = "none"
    /\ touchCtrl' = NoCtrl
    /\ stopCalls' = 0
    /\ uploadProperties' = NoProperties
    /\ pauseCalls' = 0
    /\ resumeCalls' = 0
    /\ listCalls' = 0
    /\ listCallsAtSpawn' = 0
    /\ UNCHANGED <<listening, monitorOpen>>

\* The directories verifyByArduinoBuilder() probes with directoryExistsSync,
\* in the order it pushes their flags (lines 665-683).
builderDirs ==
    << <<"-hardware", "defaultPackagePath">>,
       <<"-hardware", "packagePath/packages">>,
       <<"-hardware", "sketchbookPath/packages">>,
       <<"-tools", "arduinoPath/tools-builder">>,
       <<"-tools", "defaultPackagePath/tools/avr">>,
       <<"-tools", "packagePath/packages">>,
       <<"-built-in-libraries", "arduinoPath/libraries">>,
       <<"-libraries", "sketchbookPath/libraries">> >>

RECURSIVE dirArgs(_, _)
dirArgs(i, existing) ==
    IF i > Len(builderDirs) THEN <<>>
    ELSE (IF builderDirs[i][1] = "-built-in-libraries" \/ i \in existing
          THEN builderDirs[i] ELSE <<>>) \o dirArgs(i + 1, existing)

\* `output || dc.output` of lines 686 and 718.
outputOf(output, dcOut) == IF output # "" THEN output ELSE dcOut

\* The arguments of verifyByArduinoBuilder(), lines 663-697.
builderArgs(board, out, level, existing) ==
    <<"-compile">> \o dirArgs(1, existing) \o <<"-fqbn", board>>
    \o (IF out # "" THEN <<"-build-path", out>> ELSE <<>>)
    \o (IF level = "verbose" THEN <<"-verbose">> ELSE <<>>)
    \o <<"-logger", "humantags", "appPath">>

\* The arguments of verifyByArduinoIde(), lines 714-721.
ideVerifyArgs(board, out, level) ==
    <<"--verify", "--board", board, "appPath">>
    \o (IF level = "verbose" THEN <<"--verbose">> ELSE <<>>)
    \o (IF out # "" THEN <<"--pref", "build.path=", out>> ELSE <<>>)

Outputs == {"", "build"}
LogLevels == {"info", "verbose"}
DirListings == {{}, 1..Len(builderDirs)}

\* verify(), lines 126-150, and the selected strategy up to its await of
\* util.spawn (lines 644-651, 660-702, 711-726).
verify(board, rootPath, sketchOnDisk, discovered, b, output, dcOut, level, existing, tokenizeFails) ==
    LET pre == preflight(board, rootPath, sketchOnDisk, discovered, "", FALSE)
        out == outputOf(output, dcOut)
        started == <<Msg("start", "Verify sketch - ", "sketch")>>
    IN
    /\ pc = "idle"
    /\ op' = "verify"
    /\ force' = FALSE
    /\ currentBoard' = board
    /\ UNCHANGED dcPort
    /\ dcOutput' = dcOut
    /\ builder' = b
    /\ logLevel' = level
    /\ packageSpec' = NoPackage
    /\ FreshCall
    /\ IF pre.verdict # "proceed"
       THEN /\ notifications' = <<pre.note>>
            /\ channel' = <<>>
            /\ outcome' = pre.verdict
            /\ result' = Undefined
            /\ spawnCalls' = 0
            /\ spawnArgs' = <<>>
            /\ pc' = "done"
       ELSE IF strategyOf(b) = "command" /\ tokenizeFails
       THEN \* util.splitArgs throws inside the try of lines 649-657
            /\ notifications' = <<>>
            /\ channel' = started \o <<ExitMsg(NoCode)>>
            /\ outcome' = "returned"
            /\ result' = "false"
            /\ spawnCalls' = 0
            /\ spawnArgs' = <<>>
            /\ pc' = "done"
       ELSE /\ notifications' =
                   IF strategyOf(b) = "pattern" /\ out = ""
                   THEN <<Msg("warning", "No output folder specified. Output to a temporary folder.", "")>>
                   ELSE <<>>
            /\ channel' = started
            /\ outcome' = "running"
            /\ result' = Undefined
            /\ spawnCalls' = 1
            /\ spawnArgs' = CASE strategyOf(b) = "command" -> <<"verifyCommand">>
                              [] strategyOf(b) = "pattern" ->
                                     builderArgs(board, out, level, existing)
                              [] OTHER -> ideVerifyArgs(board, out, level)
            /\ pc' = "verifying"

\* verifyExit taking exit code 1 for a success, as the installer does.
verifyExitLenient(code) ==
    /\ pc = "verifying"
    /\ channel' = Append(channel,
                         IF code \in {0, 1}
                         THEN Msg("end", "Finished verify sketch - ", "sketch")
                         ELSE ExitMsg(code))
    /\ result' = IF code \in {0, 1} THEN "true" ELSE "false"
    /\ outcome' = "returned"
    /\ pc' = "done"
    /\ exitCode' = code
    /\ UNCHANGED <<op, force, configVars, listenerVars, monitorVars, touchVars,
                   pollVars, countVars, packageSpec, patternVars, notifications>>

\* The end of the try blocks of lines 649-657, 701-708 and 725-732.
verifyExit(code) ==
    /\ pc = "verifying"
    /\ channel' = Append(channel,
                         IF code = 0
                         THEN Msg("end", "Finished verify sketch - ", "sketch")
                         ELSE ExitMsg(code))
    /\ result' = IF code = 0 THEN "true" ELSE "false"
    /\ outcome' = "returned"
    /\ pc' = "done"
    /\ exitCode' = code
    /\ UNCHANGED <<op, force, configVars, listenerVars, monitorVars, touchVars,
                   pollVars, countVars, packageSpec, patternVars, notifications>>


(***************************************************************************)
(* The installer: installBoard(), installLibrary() and the two             *)
(* initialisers that call them.                                            *)
(***************************************************************************)

\* boardUpdatingIndex taking the empty name, not "dummy", for the refresh.
boardUpdatingIndexOnEmptyName(packageName, arch, version) ==
    packageName = "" /\ arch = "" /\ version = ""

\* Line 248 and line 286: the call refreshes the index files.
boardUpdatingIndex(packageName, arch, version) ==
    packageName = "dummy" /\ arch = "" /\ version = ""
libraryUpdatingIndex(libName, version) ==
    libName = "dummy" /\ version = ""

updatingIndex(spec) ==
    IF spec.fn = "installBoard"
    THEN boardUpdatingIndex(spec.name, spec.arch, spec.version)
    ELSE libraryUpdatingIndex(spec.name, spec.version)

\* `${packageName}${arch && ":" + arch}${version && ":" + version}`: the
\* non-empty parts after the name, each behind a colon.
specifier(spec) ==
    <<spec.name>> \o (IF spec.arch # "" THEN <<":", spec.arch>> ELSE <<>>)
                  \o (IF spec.version # "" THEN <<":", spec.version>> ELSE <<>>)

\* Lines 249-253 and 287-291.
startMessage(spec) ==
    IF spec.fn = "installBoard"
    THEN IF updatingIndex(spec)
         THEN Msg("start", "Update package index files...", "")
         ELSE Msg("start", "Install package - ", spec.name)
    ELSE IF updatingIndex(spec)
         THEN Msg("start", "Update library index files...", "")
         ELSE Msg("start", "Install library - ", spec.name)

\* Lines 259-263 and 297-301, repeated at 267-271 and 305-309.
endMessage(spec) ==
    IF spec.fn = "installBoard"
    THEN IF updatingIndex(spec)
         THEN Msg("end", "Updated package index files.", "")
         ELSE Msg("end", "Installed board package - ", spec.name)
    ELSE IF updatingIndex(spec)
         THEN Msg("end", "Updated library index files.", "")
         ELSE Msg("end", "Installed library - ", spec.name)

\* installed without the special case of exit code 1.
installedOnExitZero(code) == code = 0

\* The exit codes the install functions report as installed: the resolved
\* spawn, and error.code === 1 of lines 266 and 304.
installed(code) == code = 0 \/ code = 1

\* Lines 259-275 and 297-313: what the install writes when the subprocess ends.
installReport(spec, code) ==
    IF installed(code) THEN endMessage(spec) ELSE ExitMsg(code)

\* installBoard() lines 246-257 and installLibrary() lines 284-295, up to the
\* await of util.spawn, as the n-th subprocess of the invocation.
installCall(spec, n) ==
    /\ packageSpec' = spec
    /\ channel' = <<startMessage(spec)>>
    /\ spawnCalls' = n
    /\ spawnArgs' = <<IF spec.fn = "installBoard" THEN "--install-boards"
                      ELSE "--install-library">> \o specifier(spec)
    /\ outcome' = "running"
    /\ pc' = "installing"

\* The invocation ends without installing anything.
noInstall ==
    /\ packageSpec' = NoPackage
    /\ channel' = <<>>
    /\ outcome' = "returned"
    /\ pc' = "done"

PackageNames == {"", "dummy", "arduino"}
Archs == {"", "avr"}
Versions == {"", "1.8.3"}

dummyBoard == [fn |-> "installBoard", name |-> "dummy", arch |-> "", version |-> ""]
dummyLibrary == [fn |-> "installLibrary", name |-> "dummy", arch |-> "", version |-> ""]

installBoard(packageName, arch, version) ==
    /\ pc = "idle"
    /\ op' = "installBoard"
    /\ force' = FALSE
    /\ result' = Undefined
    /\ installCall([fn |-> "installBoard", name |-> packageName, arch |-> arch,
                    version |-> version], 1)
    /\ notifications' = <<>>
    /\ FreshCall
    /\ UNCHANGED <<currentBoard, dcPort, dcOutput, builder, logLevel>>

installLibrary(libName, version) ==
    /\ pc = "idle"
    /\ op' = "installLibrary"
    /\ force' = FALSE
    /\ result' = Undefined
    /\ installCall([fn |-> "installLibrary", name |-> libName, arch |-> "",
                    version |-> version], 1)
    /\ notifications' = <<>>
    /\ FreshCall
    /\ UNCHANGED <<currentBoard, dcPort, dcOutput, builder, logLevel>>

\* initialize(), lines 49-65, up to its first await.  prefExists and
\* indexExists are what fileExistsSync answers at lines 50 and 58.
initialize(f, prefExists, indexExists) ==
    /\ pc = "idle"
    /\ op' = "initialize"
    /\ force' = f
    /\ result' = Undefined
    /\ notifications' = <<>>
    /\ FreshCall
    /\ IF ~prefExists
       THEN \* setPref(), lines 86-90
            /\ spawnCalls' = 1
            /\ spawnArgs' = <<"--pref", "boardsmanager.additional.urls=", "--save-prefs">>
            /\ packageSpec' = NoPackage
            /\ channel' = <<>>
            /\ outcome' = "running"
            /\ pc' = "setPref"
       ELSE IF f \/ ~indexExists
       THEN installCall(dummyBoard, 1)
       ELSE /\ noInstall
            /\ spawnCalls' = 0
            /\ spawnArgs' = <<>>
    /\ UNCHANGED <<currentBoard, dcPort, dcOutput, builder, logLevel>>

\* setPref() swallows the failure of its subprocess (lines 91-92); then
\* initialize() goes on at line 54.
setPrefExit(code, indexExists) ==
    /\ pc = "setPref"
    /\ exitCode' = code
    /\ IF force \/ ~indexExists
       THEN installCall(dummyBoard, spawnCalls + 1)
       ELSE /\ noInstall
            /\ UNCHANGED <<spawnCalls, spawnArgs>>
    /\ UNCHANGED <<op, result, force, configVars, listenerVars, monitorVars, touchVars,
                   pollVars, listCalls, listCallsAtSpawn, patternVars, notifications>>

\* initializeLibrary(), lines 71-79.
initializeLibrary(f, indexExists) ==
    /\ pc = "idle"
    /\ op' = "initializeLibrary"
    /\ force' = f
    /\ result' = Undefined
    /\ notifications' = <<>>
    /\ FreshCall
    /\ IF f \/ ~indexExists
       THEN installCall(dummyLibrary, 1)
       ELSE /\ noInstall
            /\ spawnCalls' = 0
            /\ spawnArgs' = <<>>
    /\ UNCHANGED <<currentBoard, dcPort, dcOutput, builder, logLevel>>

\* Lines 259-275 and 297-313: the subprocess of an install ends.
installExit(code) ==
    /\ pc = "installing"
    /\ exitCode' = code
    /\ channel' = Append(channel, installReport(packageSpec, code))
    /\ outcome' = "returned"
    /\ pc' = "done"
    /\ UNCHANGED <<op, result, force, configVars, listenerVars, monitorVars, touchVars,
                   pollVars, countVars, packageSpec, patternVars, notifications>>

\* The caller has taken the outcome of the invocation; what the invocation
\* kept for itself is gone, what the collaborators hold stays.
invocationOver ==
    /\ pc = "done"
    /\ pc' = "idle"
    /\ op' = "none"
    /\ outcome' = "returned"
    /\ result' = Undefined
    /\ force' = FALSE
    /\ currentBoard' = Null
    /\ dcPort' = ""
    /\ dcOutput' = ""
    /\ builder' = "arduino"
    /\ logLevel' = "info"
    /\ spawnCalls' = 0
    /\ spawnArgs' = <<>>
    /\ packageSpec' = NoPackage
    /\ channel' = <<>>
    /\ notifications' = <<>>
    /\ FreshCall

(***************************************************************************)
(* The specification.                                                      *)
(***************************************************************************)

\* The operations and uploadByPattern have many inputs; their first conjunct
\* (pc = "idle", pc = "pattern") is repeated in front of the quantifier so that
\* the inputs are drawn only in the states where the action can run.
Next ==
    \/ /\ pc = "idle"
       /\ \E board \in Boards, rootPath, sketchOnDisk, discovered \in BOOLEAN,
             port \in Ports \cup {""}, b \in Builders :
             upload(board, rootPath, sketchOnDisk, discovered, port, b)
    \/ \E closeFails, tokenizeFails \in BOOLEAN :
          uploadByCommand(closeFails, tokenizeFails)
    \/ \E closeFails \in BOOLEAN, level \in LogLevels, output \in Outputs :
          uploadByArduinoIde(closeFails, level, output)
    \/ /\ pc = "pattern"
       /\ \E builtIn \in BuiltIns, listable \in BOOLEAN :
             \E files \in (IF listable THEN Listings ELSE {<<>>}),
                platformTxt \in PlatformTxts, boardPref \in BoardPrefs,
                toolProperties \in ToolProperties, output \in Outputs,
                level \in LogLevels, closeFails \in BOOLEAN :
                uploadByPattern(builtIn, listable, files, platformTxt, boardPref,
                                toolProperties, output, level, closeFails)
    \/ \E now \in Enumerations : prepareUploadPort(now)
    \/ \E opens \in BOOLEAN : touchOpen(opens)
    \/ touchStop
    \/ \E now \in Enumerations : waitForUploadPort(now)
    \/ \E tokenizeFails \in BOOLEAN : composeUpload(tokenizeFails)
    \/ \E code \in ExitCodes : uploadExit(code)
    \/ \E ports \in Enumerations : waitForPort(ports)
    \/ \E openFails \in BOOLEAN : restoreMonitor(openFails)
    \/ uploadResume
    \/ /\ pc = "idle"
       /\ \E board \in Boards, rootPath, sketchOnDisk, discovered \in BOOLEAN,
             b \in Builders, output, dcOut \in Outputs, level \in LogLevels,
             existing \in DirListings, tokenizeFails \in BOOLEAN :
             verify(board, rootPath, sketchOnDisk, discovered, b, output, dcOut, level,
                    existing, tokenizeFails)
    \/ \E code \in ExitCodes : verifyExit(code)
    \/ /\ pc = "idle"
       /\ \E packageName \in PackageNames, arch \in Archs, version \in Versions :
             installBoard(packageName, arch, version)
    \/ /\ pc = "idle"
       /\ \E libName \in PackageNames, version \in Versions :
             installLibrary(libName, version)
    \/ \E f, prefExists, indexExists \in BOOLEAN : initialize(f, prefExists, indexExists)
    \/ \E code \in ExitCodes, indexExists \in BOOLEAN : setPrefExit(code, indexExists)
    \/ \E f, indexExists \in BOOLEAN : initializeLibrary(f, indexExists)
    \/ \E code \in ExitCodes : installExit(code)
    \/ invocationOver

Spec == Init /\ [][Next]_vars

\* The steps of an upload between the call and its end.  Each is the
\* continuation of a promise upload() awaits (closeSerialMonitor, list, open,
\* stop, delay, spawn, openSerialMonitor): once the promise settles, the event
\* loop runs the continuation.  uploadExit is the subprocess terminating.  As
\* in Next, the first conjunct of an action with many inputs is repeated in
\* front of its quantifier.
uploadSteps ==
    \/ \E closeFails, tokenizeFails \in BOOLEAN :
          uploadByCommand(closeFails, tokenizeFails)
    \/ \E closeFails \in BOOLEAN, level \in LogLevels, output \in Outputs :
          uploadByArduinoIde(closeFails, level, output)
    \/ /\ pc = "pattern"
       /\ \E builtIn \in BuiltIns, listable \in BOOLEAN :
             \E files \in (IF listable THEN Listings ELSE {<<>>}),
                platformTxt \in PlatformTxts, boardPref \in BoardPrefs,
                toolProperties \in ToolProperties, output \in Outputs,
                level \in LogLevels, closeFails \in BOOLEAN :
                uploadByPattern(builtIn, listable, files, platformTxt, boardPref,
                                toolProperties, output, level, closeFails)
    \/ /\ pc = "prepare"
       /\ \E now \in Enumerations : prepareUploadPort(now)
    \/ \E opens \in BOOLEAN : touchOpen(opens)
    \/ touchStop
    \/ /\ pc = "waitForUploadPort"
       /\ \E now \in Enumerations : waitForUploadPort(now)
    \/ \E tokenizeFails \in BOOLEAN : composeUpload(tokenizeFails)
    \/ \E code \in ExitCodes : uploadExit(code)
    \/ /\ pc = "waitForPort"
       /\ \E ports \in Enumerations : waitForPort(ports)
    \/ \E openFails \in BOOLEAN : restoreMonitor(openFails)
    \/ uploadResume

\* The program with every settled promise of an upload continued.
LiveSpec == Init /\ [][Next]_vars /\ WF_vars(uploadSteps)


(***************************************************************************)


(* Properties.                                                             *)
(***************************************************************************)

last(seq) == seq[Len(seq)]
patternUpload == op = "upload" /\ strategyOf(builder) = "pattern"
touchEnabled == uploadProperties["upload.use_1200bps_touch"] = "true"
waitEnabled == uploadProperties["upload.wait_for_upload_port"] = "true"

\* C1: every upload() invocation that paused the hotplug listener has resumed
\* it when the invocation ends, whether it returns or throws.
C1_ListenerResumedOnEveryExit ==
    (pc = "done" /\ op = "upload" /\ pauseCalls > 0)
        => (resumeCalls = pauseCalls /\ listening)

\* C2: with touch and wait enabled, when waitForUploadPort() runs into its
\* timeout the negotiation is no error: prepareUploadPort() yields dc.port,
\* serial.port is set to it, and the upload goes on to its command.
C2_TimeoutYieldsConfiguredPort ==
    (patternUpload /\ touchEnabled /\ waitEnabled /\ found = "timeout"
        /\ pc \notin {"waitForUploadPort", "prepared"})
        => /\ actualUploadPort = dcPort
           /\ uploadProperties["serial.port"] = dcPort

\* C3, as first stated: an identifier waitForUploadPort() returns as newly
\* appeared is absent from the snapshot taken before the touch reset.
C3_NewPortAbsentFromSnapshot ==
    (pc = "prepared" /\ found = "new") => ~some(snapshot, actualUploadPort)

\* C3, amended: an identifier waitForUploadPort() returns as newly appeared is
\* absent from the enumeration it is compared with, which is the snapshot taken
\* before the touch reset at the first poll and the enumeration of the previous
\* poll at every later one.
C3_NewPortAbsentFromPreviousPoll ==
    (pc = "prepared" /\ found = "new")
        => /\ ~some(before, actualUploadPort)
           /\ actualUploadPort \in Ports
           /\ (elapsed = 0 => before = snapshot)

\* A port of the snapshot that went away and came back is returned as new.
C3_Witness ==
    /\ pc = "prepared"
    /\ found = "new"
    /\ elapsed > 0
    /\ some(snapshot, actualUploadPort)
    /\ ~some(before, actualUploadPort)


\* C4: when the first poll after the reset lists an identifier that the
\* snapshot does not hold, waitForUploadPort() returns the first such
\* identifier in enumeration order without polling again, and serial.port of
\* the command then spawned is that identifier.
C4_FirstPollNewPortIsUsed ==
    [][ /\ \A now \in Enumerations :
              ( /\ pc = "waitForUploadPort"
                /\ elapsed = 0
                /\ waitForUploadPort(now)
                /\ \E i \in DOMAIN now : ~some(snapshot, now[i]) )
              => /\ pc' = "prepared"
                 /\ listCalls' = 2
                 /\ \E i \in DOMAIN now :
                        /\ actualUploadPort' = now[i]
                        /\ ~some(snapshot, now[i])
                        /\ \A j \in 1..(i - 1) : some(snapshot, now[j])
        /\ (pc = "prepared" /\ found = "new" /\ pc' = "spawned")
              => /\ uploadProperties'["serial.port"] = actualUploadPort
                 /\ listCallsAtSpawn' = listCalls
      ]_vars

\* The command is spawned for a port found at the first poll that is not the
\* configured one.
C4_Witness ==
    /\ pc = "spawned"
    /\ found = "new"
    /\ listCallsAtSpawn = 2
    /\ uploadProperties["serial.port"] = actualUploadPort
    /\ actualUploadPort # dcPort

\* C5: the original port is accepted through the fallback only once 5000 ms of
\* polling have elapsed and only if the enumeration holds it; when every
\* enumeration equals the snapshot <<dc.port>>, the negotiated port is dc.port,
\* returned at the poll at which elapsed reaches 5000 ms and not before.
C5_FallbackOnlyAfterFiveSeconds ==
    /\ (pc = "prepared" /\ found = "fallback")
          => /\ elapsed >= 5000
             /\ actualUploadPort = dcPort
             /\ some(before, dcPort)
    /\ (pc = "prepared" /\ touchEnabled /\ waitEnabled /\ steady /\ snapshot = <<dcPort>>)
          => /\ found = "fallback"
             /\ actualUploadPort = dcPort
             /\ elapsed = 5000
             /\ listCalls = 21
    /\ (pc = "waitForUploadPort" /\ steady /\ snapshot = <<dcPort>>) => elapsed < 5000

C5_Witness ==
    /\ pc = "prepared"
    /\ found = "fallback"
    /\ steady
    /\ snapshot = <<dcPort>>
    /\ actualUploadPort = dcPort

\* C6, as first stated: a pattern-driven upload with touch and wait disabled
\* never calls SerialPortCtrl.list() at any point of the invocation, and
\* serial.port of the command is the configured port.
C6_NeverEnumerates ==
    (patternUpload /\ ~touchEnabled /\ ~waitEnabled)
        => /\ listCalls = 0
           /\ (spawnCalls = 1 => uploadProperties["serial.port"] = dcPort)

\* C6, amended: a pattern-driven upload with touch and wait disabled does not
\* call SerialPortCtrl.list() before its subprocess has exited with code 0 (the
\* handshake enumerates nothing; only the post-upload wait does), and
\* serial.port of the command is the configured port.
C6_NoEnumerationBeforeUploadEnds ==
    (patternUpload /\ ~touchEnabled /\ ~waitEnabled)
        => /\ listCallsAtSpawn = 0
           /\ (listCalls > 0 => spawnCalls = 1 /\ exitCode = 0)
           /\ (spawnCalls = 1 => uploadProperties["serial.port"] = dcPort)

\* Such an upload has ended, and its post-upload wait has enumerated.
C6_Witness ==
    /\ pc = "done"
    /\ patternUpload
    /\ uploadProperties["upload.use_1200bps_touch"] = "false"
    /\ uploadProperties["upload.wait_for_upload_port"] = "false"
    /\ spawnCalls = 1
    /\ listCallsAtSpawn = 0
    /\ listCalls > 0
    /\ uploadProperties["serial.port"] = dcPort

\* C7: the handle opened for the 1200bps touch is closed before the
\* negotiation goes on or fails: stop() is called whether open() resolved or
\* rejected, and no handle is open once prepareUploadPort() has ended.
C7_TouchHandleClosed ==
    /\ touchHandle \in {"created", "open", "failed"} => pc \in {"touchOpen", "touchStop"}
    /\ (pc \notin {"touchOpen", "touchStop"} /\ touchHandle # "none")
          => touchHandle = "closed" /\ stopCalls = 1
    /\ (touchHandle = "none" => stopCalls = 0)

\* open() rejected: upload() threw, and the handle was closed first.
C7_Witness ==
    /\ pc = "done"
    /\ op = "upload"
    /\ outcome = "threw"
    /\ touchHandle = "closed"
    /\ stopCalls = 1
    /\ actualUploadPort = Null
    /\ uploadProperties["serial.port"] = Undefined


installing == packageSpec.fn # "none" /\ pc \in {"installing", "done"}
refreshCall ==
    packageSpec.name = "dummy" /\ packageSpec.arch = "" /\ packageSpec.version = ""

\* C8: for installBoard and installLibrary, in normal and in index-refresh
\* mode, exit code 1 gives what exit code 0 gives (the success message and no
\* error), and every other exit code is reported as a failure with that code.
C8_ExitOneIsInstalled ==
    (installing /\ pc = "done")
        => /\ Len(channel) = 2
           /\ notifications = <<>>
           /\ outcome = "returned"
           /\ exitCode \in {0, 1}
                 => channel[2] =
                       [kind |-> "end",
                        text |-> IF packageSpec.fn = "installBoard"
                                 THEN IF refreshCall THEN "Updated package index files."
                                      ELSE "Installed board package - "
                                 ELSE IF refreshCall THEN "Updated library index files."
                                      ELSE "Installed library - ",
                        arg |-> IF refreshCall THEN "" ELSE packageSpec.name,
                        code |-> NoCode]
           /\ exitCode \notin {0, 1}
                 => channel[2] = [kind |-> "error", text |-> "Exit with code=",
                                  arg |-> "", code |-> exitCode]

\* An install of a library ended with exit code 1 and reported success.
C8_Witness ==
    /\ pc = "done"
    /\ packageSpec.fn = "installLibrary"
    /\ packageSpec.name = "arduino"
    /\ exitCode = 1
    /\ last(channel).kind = "end"

\* C9, as first stated: an install called with an empty package name and no
\* version runs in index-refresh mode and writes the index-update texts.
C9_EmptyNameRefreshesIndex ==
    (installing /\ packageSpec.name = "" /\ packageSpec.version = "")
        => channel[1].text \in {"Update package index files...",
                                "Update library index files..."}

\* C9, amended: an install runs in index-refresh mode exactly when it is
\* called with the package name "dummy", no version and, for a board package,
\* no architecture (an empty name is installed like any other name); then the
\* start and end texts are the index-update texts, and success is decided by
\* the exit code as for a normal install.
C9_DummyNameRefreshesIndex ==
    installing
        => /\ channel[1].kind = "start"
           /\ channel[1].text =
                 IF packageSpec.fn = "installBoard"
                 THEN IF refreshCall THEN "Update package index files..."
                      ELSE "Install package - "
                 ELSE IF refreshCall THEN "Update library index files..."
                      ELSE "Install library - "
           /\ pc = "done"
                 => /\ (channel[2].kind = "end") = (exitCode \in {0, 1})
                    /\ channel[2].kind = "end"
                          => (channel[2].text \in {"Updated package index files.",
                                                   "Updated library index files."})
                             = refreshCall

\* initialize() refreshed the package index through installBoard("dummy").
C9_Witness ==
    /\ pc = "done"
    /\ op = "initialize"
    /\ packageSpec = dummyBoard
    /\ channel[1].text = "Update package index files..."
    /\ channel[2].text = "Updated package index files."

\* C10, as first stated: verify() and upload() with no board selected, and
\* upload() with no serial port configured, report an error and return with
\* no subprocess spawned.
C10_AbortsByReturning ==
    (pc = "done" /\ op \in {"upload", "verify"}
        /\ (currentBoard = Null \/ (op = "upload" /\ dcPort = "")))
        => /\ outcome = "returned"
           /\ spawnCalls = 0
           /\ notifications # <<>>

\* C10, amended: verify() and upload() with no board selected report an error
\* and return; upload() with no serial port configured reports a message to
\* the user and ends, by returning unless the sketch cannot be found, in which
\* case it throws the no-sketch error; in all these cases no subprocess is
\* spawned, whatever the builder setting.
C10_AbortsBeforeAnySubprocess ==
    /\ (op \in {"upload", "verify"} /\ currentBoard = Null)
          => /\ pc = "done"
             /\ outcome = "returned"
             /\ spawnCalls = 0
             /\ pauseCalls = 0
             /\ notifications = <<[kind |-> "error", text |-> "NO_BOARD_SELECTED",
                                   arg |-> "", code |-> NoCode]>>
    /\ (op = "upload" /\ currentBoard # Null /\ dcPort = "")
          => /\ pc = "done"
             /\ spawnCalls = 0
             /\ pauseCalls = 0
             /\ Len(notifications) = 1
             /\ notifications[1].kind \in {"error", "warning"}
             /\ \/ outcome = "returned"
                \/ outcome = "threw" /\ notifications[1].text = "No sketch file was found."

\* A pattern-driven upload with a board but no port is refused.
C10_Witness ==
    /\ pc = "done"
    /\ op = "upload"
    /\ builder = "arduino-builder"
    /\ currentBoard # Null
    /\ dcPort = ""
    /\ outcome = "returned"
    /\ spawnCalls = 0
    /\ notifications[1].text = "Please specify the upload serial port."


resolved == patternUpload /\ resolution.builtIn # "unprobed"
userPlatform ==
    IF resolution.listable /\ Len(resolution.files) > 0
    THEN externalPath \o <<resolution.files[1]>>
    ELSE NotFound

\* C11: resolvePackagePath() returns the built-in candidate only if it exists
\* and is a directory; when the candidate exists as a regular file the
\* resolution falls through to the user-installed lookup.
C11_FileFallsThroughToUserLookup ==
    resolved
        => /\ (resolution.packageDir = builtInPath => resolution.builtIn = "dir")
           /\ (resolution.builtIn = "file"
                  => resolution.listed /\ resolution.packageDir = userPlatform)

\* C12: when a built-in directory and a user-installed versioned directory
\* both exist, resolvePackagePath() returns the built-in path and never lists
\* the user packages directory.
C12_BuiltInWinsWithoutListing ==
    (resolved /\ resolution.builtIn = "dir" /\ resolution.listable
        /\ Len(resolution.files) > 0)
        => /\ resolution.packageDir = builtInPath
           /\ ~resolution.listed

\* Both exist, the upload goes on with the built-in platform.
C12_Witness ==
    /\ pc = "prepare"
    /\ resolved
    /\ resolution.builtIn = "dir"
    /\ resolution.files = <<"1.8.3", "1.6.0">>
    /\ resolution.packageDir = builtInPath
    /\ ~resolution.listed
    /\ layers.loaded

\* C13: when nothing exists at the built-in path, resolvePackagePath() lists
\* <packagePath>/packages/<packager>/hardware/<arch> and returns that
\* directory joined with the first listed entry, in listing order and without
\* comparing versions, and null when the directory is missing or empty.
C13_FirstListedVersionOrNull ==
    (resolved /\ resolution.builtIn = "missing")
        => /\ resolution.listed
           /\ (resolution.listable /\ Len(resolution.files) > 0)
                 => /\ Len(resolution.packageDir) = Len(externalPath) + 1
                    /\ SubSeq(resolution.packageDir, 1, Len(externalPath)) = externalPath
                    /\ last(resolution.packageDir) = resolution.files[1]
           /\ (~resolution.listable \/ resolution.files = <<>>)
                 => resolution.packageDir = NotFound

\* The older version is listed first and is the one returned.
C13_Witness ==
    /\ pc = "prepare"
    /\ resolved
    /\ resolution.builtIn = "missing"
    /\ resolution.files = <<"1.6.0", "1.8.3">>
    /\ resolution.packageDir =
          <<"packagePath", "packages", "packager", "hardware", "arch", "1.6.0">>

\* C14: when resolvePackagePath() returns null the pattern-driven upload stops
\* there: it reports an error to the user and returns without loading any
\* property file, closing the serial monitor, enumerating or touching a serial
\* device, or spawning a subprocess.
C14_NotFoundIsHardStop ==
    /\ [](  (resolved /\ resolution.packageDir = NotFound)
              => /\ pc \in {"resume", "done"}
                 /\ outcome # "threw"
                 /\ pc = "done" => (outcome = "returned" /\ resumeCalls = 1)
                 /\ notifications = <<[kind |-> "error",
                                       text |-> "Cannot found properties for upload.",
                                       arg |-> "", code |-> NoCode]>>
                 /\ ~layers.loaded
                 /\ uploadProperties = NoProperties
                 /\ ~needRestore
                 /\ listCalls = 0
                 /\ touchHandle = "none"
                 /\ spawnCalls = 0
                 /\ channel = <<>> )
    /\ [][ (pc = "pattern" /\ resolution'.builtIn # "unprobed"
               /\ resolution'.packageDir = NotFound)
              => /\ monitorOpen' = monitorOpen
                 /\ needRestore' = needRestore ]_vars

\* Neither platform directory exists: upload() has returned after the error.
C14_Witness ==
    /\ pc = "done"
    /\ resolved
    /\ resolution.builtIn = "missing"
    /\ ~resolution.listable
    /\ resolution.packageDir = NotFound
    /\ outcome = "returned"
    /\ spawnCalls = 0
    /\ listening

uploadedTexts(seq) == {i \in DOMAIN seq : seq[i].kind = "end"}

\* C15: in the three upload strategies, after exit code 0 the serial monitor
\* is reopened if and only if closeSerialMonitor() had returned true, and the
\* success message is written only once that is done; after a non-zero exit
\* code the failure is written to the channel with the code and upload() does
\* not throw.
C15_MonitorRestoredThenSuccessReported ==
    /\ (op = "upload" /\ uploadedTexts(channel) # {})
          => /\ exitCode = 0
             /\ monitorOpen = needRestore
             /\ last(channel) = [kind |-> "end", text |-> "Uploaded the sketch: ",
                                 arg |-> "sketch", code |-> NoCode]
    /\ (op = "upload" /\ exitCode = 0 /\ pc \in {"resume", "done"} /\ outcome # "threw")
          => /\ monitorOpen = needRestore
             /\ uploadedTexts(channel) # {}
    /\ (op = "upload" /\ exitCode > 0)
          => /\ pc \in {"resume", "done"}
             /\ outcome # "threw"
             /\ last(channel) = [kind |-> "error", text |-> "Exit with code=",
                                 arg |-> "", code |-> exitCode]
             /\ uploadedTexts(channel) = {}

\* A direct-command upload of a board whose monitor was not open has ended
\* with exit code 0, and the monitor was left closed.
C15_Witness ==
    /\ pc = "done"
    /\ op = "upload"
    /\ builder = "command"
    /\ exitCode = 0
    /\ ~needRestore
    /\ ~monitorOpen
    /\ last(channel).kind = "end"

\* C16: in every verify strategy, once the subprocess is spawned verify()
\* returns true if and only if its exit code is 0 and false for every other
\* code, which it writes to the channel; the failure is never thrown.
C16_VerifyReturnsExitCodeIsZero ==
    /\ (op = "verify" /\ pc = "verifying") => (spawnCalls = 1 /\ exitCode = NoCode)
    /\ (op = "verify" /\ pc = "done" /\ spawnCalls = 1)
          => /\ outcome = "returned"
             /\ exitCode \in ExitCodes
             /\ result = (IF exitCode = 0 THEN "true" ELSE "false")
             /\ exitCode # 0
                   => last(channel) = [kind |-> "error", text |-> "Exit with code=",
                                       arg |-> "", code |-> exitCode]

\* arduino-builder exited with code 1 and verify() returned false.
C16_Witness ==
    /\ pc = "done"
    /\ op = "verify"
    /\ builder = "arduino-builder"
    /\ spawnCalls = 1
    /\ exitCode = 1
    /\ result = "false"
    /\ outcome = "returned"

\* The value of key k in the last of platform.txt, the current board's entries
\* of boards.txt and the tool properties that holds k.
lastLayered(k) ==
    LET stack == <<layers.platform, layers.boards[currentBoard], layers.tools>>
        holding == {i \in 1..3 : stack[i][k] # Undefined}
    IN IF holding = {} THEN Undefined
       ELSE stack[CHOOSE i \in holding : \A j \in holding : j <= i][k]

\* C17: in the pattern-driven upload every key has the value of the last of
\* platform.txt, the entries of boards.txt under the current board id and the
\* user's tool properties that holds it; build.path, build.project_name and
\* upload.verbose are set after the merges and serial.port and
\* serial.port.file after the negotiation, over whatever a layer held for them,
\* and nothing else changes the properties before the command is spawned.
C17_LastLayerWinsComputedKeysOverride ==
    /\ [](  (patternUpload /\ layers.loaded)
              => /\ \A k \in PropKeys \ {"build.path", "build.project_name", "upload.verbose"} :
                        uploadProperties[k] = lastLayered(k)
                 /\ dcOutput = ""
                       => \A k \in PropKeys : uploadProperties[k] = lastLayered(k)
                 /\ dcOutput # ""
                       => /\ uploadProperties["build.path"] = "rootPath/build"
                          /\ uploadProperties["build.project_name"] = "sketch.ino"
                          /\ uploadProperties["upload.verbose"] =
                                IF logLevel = "verbose"
                                THEN lastLayered("tools.avrdude.upload.params.verbose")
                                ELSE lastLayered("tools.avrdude.upload.params.quiet") )
    /\ [](  (patternUpload /\ pc = "spawned")
              => /\ uploadProperties["serial.port"] = actualUploadPort
                 /\ actualUploadPort \in Ports
                 /\ uploadProperties["serial.port.file"] \in
                       {actualUploadPort, "ttyACM0", "ttyACM1"}
                 /\ uploadProperties["build.path"] = "rootPath/build"
                 /\ spawnArgs = <<uploadProperties["tools.avrdude.upload.pattern"]>> )
    /\ [][ (patternUpload /\ pc # "pattern" /\ op' = op)
              => \A k \in PropKeys :
                    uploadProperties'[k] # uploadProperties[k]
                       => (k \in {"serial.port", "serial.port.file"} /\ pc = "prepared") ]_vars

\* upload.use_1200bps_touch is "false" in platform.txt, "true" for the board
\* and "false" in the tool properties; build.path and serial.port are held by
\* a layer; build.path is the computed one already, serial.port is still the
\* layer's, to be set after the negotiation.
C17_Witness ==
    /\ pc = "prepare"
    /\ patternUpload
    /\ layers.loaded
    /\ layers.platform["upload.use_1200bps_touch"] = "false"
    /\ layers.boards["uno"]["upload.use_1200bps_touch"] = "true"
    /\ layers.tools["upload.use_1200bps_touch"] = "false"
    /\ uploadProperties["upload.use_1200bps_touch"] = "false"
    /\ layers.platform["build.path"] = "platform.txt"
    /\ layers.tools["build.path"] = "toolProperties"
    /\ uploadProperties["build.path"] = "rootPath/build"
    /\ uploadProperties["serial.port"] = "toolProperties"
    /\ uploadProperties["upload.tool"] = "avrdude"

Handshake == {"prepare", "touchOpen", "touchStop", "waitForUploadPort", "prepared"}

\* C18: the steps of the pattern-driven upload follow one another: the serial
\* monitor is closed, then the reset and wait handshake runs to its end, then
\* the command is built and spawned, then the post-upload wait runs, and only
\* when that wait has ended is the monitor reopened.
C18_PatternUploadStepsInOrder ==
    /\ []( (patternUpload /\ pc \in Handshake \cup {"spawned", "waitForPort", "restore"})
              => ~monitorOpen )
    /\ [][ (patternUpload /\ op' = op)
              => /\ pc' = "prepare" => pc = "pattern"
                 /\ (pc' \in Handshake /\ pc' # "prepare") => pc \in Handshake
                 /\ pc' = "spawned"
                       => (pc = "prepared" /\ spawnCalls = 0 /\ spawnCalls' = 1)
                 /\ spawnCalls' = spawnCalls \/ pc' = "spawned"
                 /\ pc' = "waitForPort"
                       => (pc \in {"spawned", "waitForPort"} /\ exitCode' = 0)
                 /\ pc' = "restore" => pc = "waitForPort"
                 /\ (monitorOpen' /\ ~monitorOpen) => pc = "restore"
                 /\ listCalls' # listCalls => pc \in Handshake \cup {"waitForPort"} ]_vars

\* The upload ended well: the post-upload wait enumerated, and the monitor
\* that was open before is open again.
C18_Witness ==
    /\ pc = "done"
    /\ patternUpload
    /\ outcome = "returned"
    /\ exitCode = 0
    /\ needRestore
    /\ monitorOpen
    /\ listCalls > listCallsAtSpawn

\* C19: an invocation of verify() or upload() runs one strategy, the
\* direct-command one for the builder "command", the pattern-driven one for
\* "arduino-builder" and the full-IDE one for every other setting, and spawns
\* at most one subprocess, none while another is running.
C19_OneStrategyOneSubprocess ==
    /\ []( op \in {"upload", "verify"}
              => /\ spawnCalls <= 1
                 /\ pc \in {"command", "pattern", "ide"}
                       => pc = (IF builder = "command" THEN "command"
                                ELSE IF builder = "arduino-builder" THEN "pattern"
                                ELSE "ide")
                 /\ pc \in Handshake \cup {"waitForPort"} => builder = "arduino-builder"
                 /\ pc \in {"spawned", "verifying"} => spawnCalls = 1
                 /\ spawnCalls = 1
                       => spawnArgs[1] =
                             IF op = "upload"
                             THEN (IF builder = "command" THEN "uploadCommand"
                                   ELSE IF builder = "arduino-builder" THEN "upload.pattern"
                                   ELSE "--upload")
                             ELSE (IF builder = "command" THEN "verifyCommand"
                                   ELSE IF builder = "arduino-builder" THEN "-compile"
                                   ELSE "--verify") )
    /\ [][ (op' = op /\ op \in {"upload", "verify"} /\ spawnCalls' # spawnCalls)
              => (spawnCalls = 0 /\ pc \notin {"spawned", "verifying"}) ]_vars

\* A direct-command verify has ended after its one subprocess.
C19_Witness ==
    /\ pc = "done"
    /\ op = "verify"
    /\ builder = "command"
    /\ spawnCalls = 1
    /\ spawnArgs = <<"verifyCommand">>
    /\ exitCode = 0

has(args, flag) == \E i \in DOMAIN args : args[i] = flag

\* C20: the full-IDE strategy passes --board for upload and verify, --port for
\* upload only, and --pref build.path=<dir> whenever an output directory is
\* known, for upload as well as for verify.
C20_IdePassesBuildPathWhenOutputKnown ==
    (op \in {"upload", "verify"} /\ builder = "arduino" /\ spawnCalls = 1)
        => /\ has(spawnArgs, "--board")
           /\ has(spawnArgs, "--port") = (op = "upload")
           /\ dcOutput # "" => has(spawnArgs, "--pref")

\* C22: the configured port is opened at 1200 baud only when touch is enabled
\* and the snapshot prepareUploadPort() has just taken lists it; when touch is
\* enabled and the snapshot does not list the port, no handle is made, and the
\* negotiation still goes on to waitForUploadPort() if wait is enabled (to the
\* end of prepareUploadPort() if it is not).
C22_TouchOnlyWhenPortInSnapshot ==
    /\ [](touchHandle # "none"
            => /\ patternUpload /\ touchEnabled
               /\ touchCtrl = [port |-> dcPort, baudRate |-> 1200]
               /\ pc \in {"touchOpen", "touchStop"} => some(snapshot, dcPort))
    /\ [](touchHandle = "none" => touchCtrl = NoCtrl)
    /\ [][ (pc = "prepare" /\ pc' # "prepare")
              => /\ (touchHandle' # "none") = (touchEnabled /\ some(snapshot', dcPort))
                 /\ (touchEnabled /\ some(snapshot', dcPort)) => pc' = "touchOpen"
                 /\ (touchEnabled /\ ~some(snapshot', dcPort))
                       => /\ touchHandle' = "none"
                          /\ listCalls' = 1
                          /\ pc' = IF waitEnabled THEN "waitForUploadPort" ELSE "prepared"
         ]_vars

\* Touch and wait are enabled and the snapshot does not list the configured
\* port: polling has begun without any handle.
C22_Witness ==
    /\ pc = "waitForUploadPort"
    /\ touchEnabled
    /\ waitEnabled
    /\ ~some(snapshot, dcPort)
    /\ touchHandle = "none"
    /\ elapsed = 0
    /\ listCalls = 1

\* C23: when touch is disabled, prepareUploadPort() goes straight to its end
\* whatever upload.wait_for_upload_port is: it calls list() not once, makes no
\* handle, never enters waitForUploadPort(), and returns the configured port,
\* which becomes serial.port of the command.
C23_TouchDisabledGoesStraightToReady ==
    /\ []((patternUpload /\ ~touchEnabled)
            => /\ pc \notin {"touchOpen", "touchStop", "waitForUploadPort"}
               /\ touchHandle = "none"
               /\ found = "none"
               /\ listCallsAtSpawn = 0
               /\ pc \in {"prepare", "prepared"} => listCalls = 0
               /\ spawnCalls = 1 => /\ actualUploadPort = dcPort
                                    /\ uploadProperties["serial.port"] = dcPort)
    /\ [][ (pc = "prepare" /\ ~touchEnabled /\ pc' # "prepare")
              => /\ pc' = "prepared"
                 /\ UNCHANGED <<listCalls, touchVars, pollVars>> ]_vars

\* Touch is disabled and wait is enabled: the command has been spawned for the
\* configured port without any enumeration.
C23_Witness ==
    /\ pc = "spawned"
    /\ patternUpload
    /\ ~touchEnabled
    /\ waitEnabled
    /\ listCalls = 0
    /\ uploadProperties["serial.port"] = dcPort
    /\ dcPort \in Ports

\* C24: upload() pauses the hotplug listener at most once per invocation, and
\* before it closes the serial monitor, enumerates devices, makes the touch
\* handle or spawns a subprocess: all of these happen while the listener is
\* paused.  It does not pause the listener when it aborts on a missing board,
\* workspace root, sketch or port, and resumeListening() is never called in an
\* invocation that has not called pauseListening().
C24_PausedOnceBeforeAnyWork ==
    /\ [](op = "upload"
            => /\ pauseCalls \in {0, 1}
               /\ resumeCalls <= pauseCalls
               /\ pc # "done" => (pauseCalls = 1 /\ resumeCalls = 0 /\ ~listening)
               /\ pauseCalls = 0
                    => /\ pc = "done"
                       /\ Len(notifications) = 1
                       /\ ~needRestore
                       /\ listCalls = 0
                       /\ touchHandle = "none"
                       /\ spawnCalls = 0
                       /\ channel = <<>>)
    /\ [][ /\ (pc = "idle" /\ op' = "upload")
              => /\ UNCHANGED monitorOpen
                 /\ ~needRestore' /\ listCalls' = 0 /\ touchHandle' = "none" /\ spawnCalls' = 0
                 /\ IF currentBoard' = Null \/ dcPort' = "" \/ notifications' # <<>>
                    THEN pauseCalls' = 0 /\ pc' = "done" /\ UNCHANGED listening
                    ELSE pauseCalls' = 1 /\ ~listening'
           /\ (op = "upload" /\ pc # "idle"
                 /\ (monitorOpen' # monitorOpen \/ needRestore' # needRestore
                       \/ listCalls' # listCalls \/ touchHandle' # touchHandle
                       \/ spawnCalls' # spawnCalls))
              => (pc' = "idle" \/ (pauseCalls = 1 /\ UNCHANGED pauseCalls))
           /\ (op = "upload" /\ resumeCalls' > resumeCalls) => pauseCalls = 1
         ]_vars

\* A pattern-driven upload that closed the serial monitor, touched the port
\* and enumerated has ended, with one pause and one resume.
C24_Witness ==
    /\ pc = "done"
    /\ patternUpload
    /\ pauseCalls = 1
    /\ resumeCalls = 1
    /\ needRestore
    /\ touchHandle = "closed"
    /\ listCalls > 1
    /\ spawnCalls = 1

\* C25: when the upload subprocess exits with a code other than 0, in any of
\* the three strategies, the serial monitor this upload closed is not
\* reopened: it is closed from the spawn to the end of the invocation, also
\* when it was open before the upload (needRestore), and the failure callback
\* leaves the monitor as it is.
C25_FailedUploadLeavesMonitorClosed ==
    /\ []((op = "upload" /\ exitCode > 0)
            => /\ strategyOf(builder) \in {"command", "pattern", "ide"}
               /\ spawnCalls = 1
               /\ ~monitorOpen
               /\ pc \in {"resume", "done"})
    /\ []((op = "upload" /\ pc = "spawned") => ~monitorOpen)
    /\ [][ (op = "upload" /\ pc = "spawned" /\ exitCode' > 0)
              => /\ UNCHANGED monitorVars
                 /\ pc' = "resume" ]_vars
    /\ [][ (op = "upload" /\ exitCode > 0 /\ pc' # "idle") => UNCHANGED monitorVars ]_vars

\* A pattern-driven upload whose monitor was open before it has failed and
\* ended: the monitor is closed.
C25_Witness ==
    /\ pc = "done"
    /\ patternUpload
    /\ exitCode > 0
    /\ needRestore
    /\ ~monitorOpen
    /\ resumeCalls = 1

noOutputFolder == Msg("error", "No output folder specified. Cannot find binary.", "")

\* C26: a pattern-driven upload whose package directory was found and whose
\* dc.output is empty reports "No output folder specified" and ends: the serial
\* monitor is not closed, no device enumeration is made, no touch handle, no
\* subprocess; upload() then resumes the hotplug listener and returns.
C26_NoOutputFolderStopsBeforeAnyWork ==
    /\ []((resolved /\ ~isNull(resolution.packageDir) /\ dcOutput = "")
            => /\ pc \in {"resume", "done"}
               /\ notifications = <<noOutputFolder>>
               /\ ~needRestore
               /\ listCalls = 0
               /\ touchHandle = "none"
               /\ spawnCalls = 0
               /\ channel = <<>>
               /\ outcome # "threw"
               /\ pauseCalls = 1
               /\ pc = "done" => (outcome = "returned" /\ resumeCalls = 1 /\ listening))
    /\ []((op = "upload" /\ \E i \in DOMAIN notifications : notifications[i] = noOutputFolder)
            => (patternUpload /\ dcOutput = "" /\ spawnCalls = 0 /\ listCalls = 0))
    /\ [][ (pc = "pattern" /\ ~isNull(resolution'.packageDir) /\ dcOutput' = "")
              => /\ pc' = "resume"
                 /\ UNCHANGED <<monitorVars, touchVars, pollVars, countVars, listenerVars>>
         ]_vars

\* Such an upload has ended with the error shown, the monitor still open and
\* the listener resumed.
C26_Witness ==
    /\ pc = "done"
    /\ patternUpload
    /\ layers.loaded
    /\ dcOutput = ""
    /\ notifications = <<noOutputFolder>>
    /\ monitorOpen
    /\ listening
    /\ resumeCalls = 1
    /\ spawnCalls = 0

MaxUploadPortPolls == UploadPortTimeout \div PollInterval
MaxPortPolls == PortWaitTimeout \div PollInterval

\* C21: both polling loops are bounded: waitForUploadPort() calls list() at
\* most 40 times (250 ms steps up to 10 s) and waitForPort() at most 8 times
\* (250 ms steps up to 2 s), whatever the enumerations are; and an upload
\* whose awaited promises settle, its subprocess terminating, reaches its end.
C21_PollingLoopsAreBounded ==
    /\ [](MaxUploadPortPolls = 40 /\ MaxPortPolls = 8)
    /\ [](pc = "waitForUploadPort"
            => /\ elapsed < 10000
               /\ listCalls - 1 = elapsed \div 250
               /\ listCalls - 1 < 40)
    /\ []((op = "upload" /\ pc \notin {"idle", "waitForUploadPort"})
            => /\ listCallsAtSpawn <= 1 + 40
               /\ spawnCalls = 0 => listCalls <= 1 + 40
               /\ found = "timeout" => (elapsed = 10000 \/ pc = "done"))
    /\ [](pc = "waitForPort"
            => /\ elapsed < 2000
               /\ listCalls - listCallsAtSpawn = elapsed \div 250)
    /\ []((op = "upload" /\ spawnCalls = 1) => listCalls - listCallsAtSpawn <= 8)
    /\ [](op = "upload" => <>(pc = "done"))

\* An upload has ended after both loops made all their polls: 40 of
\* waitForUploadPort(), the last of which listed a new port, and 8 of
\* waitForPort().
C21_Witness ==
    /\ pc = "done"
    /\ patternUpload
    /\ found = "new"
    /\ listCallsAtSpawn = 1 + 40
    /\ listCalls - listCallsAtSpawn = 8
    /\ exitCode = 0

====
